---- MODULE Spec2Model ----
(***************************************************************************)
(* sumdir (src/src/main.rs): walk a directory tree, count regular files    *)
(* by extension and by sniffed content type, sum their sizes, collect the  *)
(* per-entry failures, and render the Report as text, CSV or JSON.         *)
(*                                                                         *)
(* Four specifications share the variables below:                          *)
(*   Spec / FairSpec  main(): exists check, scan loop, display             *)
(*   RenderSpec       Report::display on Reports drawn from bounded sets   *)
(*   BytesSpec        friendly_bytes on byte counts drawn from bounded sets*)
(*   SniffSpec        detect_mimetype on files drawn from bounded sets     *)
(***************************************************************************)
EXTENDS Integers, Sequences, FiniteSets, TLC

VARIABLES
    pc,         \* position of main(): "start", "scan", "display", "done", "exit1"
    cli,        \* Cli after parse: [target_exists, output, mime]
    walk,       \* the items WalkDir::new(target) yields, root first
    iter,       \* the items the for loop of scan() has not consumed yet
    report,     \* the Report under construction / being rendered
    stdout,     \* lines printed with println!
    stderr,     \* lines printed with eprintln!
    exit_code,  \* process exit status (-1 while running)
    bytes,      \* BytesSpec: argument of friendly_bytes
    fb,         \* BytesSpec: its result
    file,       \* SniffSpec: the file detect_mimetype is called on
    sniff       \* SniffSpec: its result

vars == <<pc, cli, walk, iter, report, stdout, stderr, exit_code, bytes, fb, file, sniff>>

(***************************************************************************)
(* Bounds of the model.                                                    *)
(***************************************************************************)
\* entries beneath the root in one walk
MaxEntries == 3
\* base-1024 digits of a byte count given to friendly_bytes
MaxLimbs == 5
\* largest count of one key in a drawn Report
MaxCount == 2
\* errors in a drawn Report
MaxErrors == 2
\* bytes a sniffed file may hold beyond the read buffer
MaxExtra == 1

(***************************************************************************)
(* u64 byte counts.  TLC's integers are 32 bits wide, the program's sizes  *)
(* 64: a byte count is kept as its base-1024 digits, least significant     *)
(* first, without leading zeros (<<>> is 0).                               *)
(***************************************************************************)
KiB == 1024

Min(a, b) == IF a < b THEN a ELSE b
Max(a, b) == IF a < b THEN b ELSE a

RECURSIVE Trim(_)
Trim(x) == IF x = <<>> THEN <<>>
           ELSE IF x[Len(x)] = 0 THEN Trim(SubSeq(x, 1, Len(x) - 1)) ELSE x

\* a small natural as a byte count
RECURSIVE U64(_)
U64(n) == IF n = 0 THEN <<>> ELSE <<n % KiB>> \o U64(n \div KiB)

Digit(x, i) == IF i <= Len(x) THEN x[i] ELSE 0

\* a + b (report.size += metadata.size())
RECURSIVE AddC(_, _, _)
AddC(a, b, c) ==
    IF a = <<>> /\ b = <<>> THEN (IF c = 0 THEN <<>> ELSE <<c>>)
    ELSE LET s == Digit(a, 1) + Digit(b, 1) + c
         IN <<s % KiB>> \o AddC(IF a = <<>> THEN <<>> ELSE Tail(a),
                                IF b = <<>> THEN <<>> ELSE Tail(b), s \div KiB)
Add(a, b) == AddC(a, b, 0)

\* x / 1024
Div1024(x) == IF x = <<>> THEN <<>> ELSE Tail(x)
\* x > 1024
Gt1024(x) == Len(x) > 2 \/ (Len(x) = 2 /\ (x[2] > 1 \/ x[1] > 0))
\* x >= 1024
Ge1024(x) == Len(x) >= 2

(***************************************************************************)
(* BTreeMap<String, i32>: a function from the keys present to counts.      *)
(* String order (bytewise) is the position in KeyOrder, the universe of    *)
(* keys of the model listed in ascending order.                            *)
(***************************************************************************)
OCTET == "application/octet-stream"
PDF == "application/pdf"
PNG == "image/png"

KeyOrder == <<"", OCTET, PDF, PNG, "png", "txt">>
Rank(k) == CHOOSE i \in 1..Len(KeyOrder) : KeyOrder[i] = k

EmptyMap == [k \in {} |-> 0]

\* .entry(k).and_modify(|e| *e += 1).or_insert(1)
Incr(m, k) == IF k \in DOMAIN m THEN [m EXCEPT ![k] = @ + 1]
              ELSE [j \in DOMAIN m \cup {k} |-> IF j = k THEN 1 ELSE m[j]]

RECURSIVE SumSet(_, _)
SumSet(m, S) == IF S = {} THEN 0
                ELSE LET k == CHOOSE k \in S : TRUE IN m[k] + SumSet(m, S \ {k})
\* data.values().sum()
Sum(m) == SumSet(m, DOMAIN m)

\* data.iter(): the (key, count) pairs in ascending key order
RECURSIVE IterFrom(_, _)
IterFrom(m, i) ==
    IF i > Len(KeyOrder) THEN <<>>
    ELSE (IF KeyOrder[i] \in DOMAIN m
          THEN <<[key |-> KeyOrder[i], count |-> m[KeyOrder[i]]]>> ELSE <<>>)
         \o IterFrom(m, i + 1)
Iter(m) == IterFrom(m, 1)

(***************************************************************************)
(* Files and the content sniffer.                                          *)
(***************************************************************************)
BUF_SIZE == 8192
FALLBACK == OCTET

PNG_MAGIC == <<137, 80, 78, 71, 13, 10, 26, 10>>
PDF_MAGIC == <<37, 80, 68, 70>>
HELLO == <<72, 101, 108, 108, 111>>

\* infer's signature table, in matching order
Signatures == <<[mime |-> PNG, magic |-> PNG_MAGIC], [mime |-> PDF, magic |-> PDF_MAGIC]>>

Matches(sig, buf) == Len(buf) >= Len(sig.magic) /\ SubSeq(buf, 1, Len(sig.magic)) = sig.magic

\* infer::get(buf): the first signature that matches, if any
infer_get(buf) ==
    LET hits == {i \in 1..Len(Signatures) : Matches(Signatures[i], buf)}
    IN IF hits = {} THEN [some |-> FALSE, mime |-> ""]
       ELSE [some |-> TRUE, mime |-> Signatures[CHOOSE i \in hits : \A j \in hits : i <= j].mime]

\* what one file.read(&mut buffer) may return for a file of len bytes:
\* the whole of what fits, or fewer bytes (a short read), 0 only at end of file
ShortRead == 4
ReadSizes(len) == {Min(len, BUF_SIZE)} \cup {n \in {ShortRead} : n < Min(len, BUF_SIZE)}

\* the bytes file.read leaves in buffer[..bytes_read]
Prefix(content, n) == SubSeq(content, 1, n)

\* a sniffer that reports a file without a known signature as a failure
detect_mimetype_no_fallback(f, n) ==
    IF ~f.open_ok THEN [ok |-> FALSE, value |-> "failed to open", bytes_read |-> 0]
    ELSE IF ~f.read_ok THEN [ok |-> FALSE, value |-> "failed to read", bytes_read |-> 0]
    ELSE LET kind == infer_get(Prefix(f.content, n))
         IN IF kind.some THEN [ok |-> TRUE, value |-> kind.mime, bytes_read |-> n]
            ELSE [ok |-> FALSE, value |-> "failed to read", bytes_read |-> n]

\* detect_mimetype(path), when its read returns n bytes
detect_mimetype(f, n) ==
    IF ~f.open_ok THEN [ok |-> FALSE, value |-> "failed to open", bytes_read |-> 0]
    ELSE IF ~f.read_ok THEN [ok |-> FALSE, value |-> "failed to read", bytes_read |-> 0]
    ELSE LET kind == infer_get(Prefix(f.content, n))
         IN IF kind.some THEN [ok |-> TRUE, value |-> kind.mime, bytes_read |-> n]
            ELSE [ok |-> TRUE, value |-> FALLBACK, bytes_read |-> n]

(***************************************************************************)
(* Printed text: a line is a sequence of tokens, a token a literal piece   *)
(* of text or a formatted value.                                           *)
(***************************************************************************)
Lit(s) == [lit |-> s]
Num(n) == [int |-> n]
Size(x) == [u64 |-> x]
PathTok(p) == [path |-> p]
KeyTok(k) == [key |-> k]

IsLit(t, s) == DOMAIN t = {"lit"} /\ t.lit = s

QUOTE == Lit("\"")
BACKSLASH == Lit("\\")

\* format!("{:?}", path)
DebugPath(p) == <<QUOTE, PathTok(p), QUOTE>>

(***************************************************************************)
(* The walker's items.  An Ok entry carries what the calls made on its     *)
(* path return: is_dir (Path::is_dir follows links), the extension, the    *)
(* metadata (size) or its failure, and the file behind it.  node is what   *)
(* the entry itself is: "dir", "file" or "symlink".                        *)
(***************************************************************************)
Entry(node, isdir, ext, meta, size, open, read, content) ==
    [tag |-> "Ok", node |-> node, is_dir |-> isdir, ext |-> ext, meta_ok |-> meta,
     size |-> U64(size), open_ok |-> open, read_ok |-> read, content |-> content,
     has_path |-> TRUE]
WalkErr(haspath) ==
    [tag |-> "Err", node |-> "", is_dir |-> FALSE, ext |-> "", meta_ok |-> FALSE,
     size |-> <<>>, open_ok |-> FALSE, read_ok |-> FALSE, content |-> <<>>,
     has_path |-> haspath]

DirEntry == Entry("dir", TRUE, "", TRUE, 0, FALSE, FALSE, <<>>)
\* a symbolic link to a directory: not followed by the walker, followed by is_dir
LinkToDir == Entry("symlink", TRUE, "", TRUE, 0, FALSE, FALSE, <<>>)
\* a symbolic link whose target is gone: metadata() fails
BrokenLink == Entry("symlink", FALSE, "", FALSE, 0, FALSE, FALSE, <<>>)
PngFile == Entry("file", FALSE, "png", TRUE, 8, TRUE, TRUE, PNG_MAGIC)
TxtFile == Entry("file", FALSE, "txt", TRUE, 5, TRUE, TRUE, HELLO)
\* a file without read permission: metadata succeeds, open fails
NoOpenFile == Entry("file", FALSE, "txt", TRUE, 5, FALSE, FALSE, HELLO)
\* a file whose read fails after a successful open
NoReadFile == Entry("file", FALSE, "png", TRUE, 8, TRUE, FALSE, PNG_MAGIC)

Entries == {DirEntry, LinkToDir, BrokenLink, PngFile, TxtFile, NoOpenFile, NoReadFile,
            WalkErr(TRUE), WalkErr(FALSE)}

\* the i-th item of a walk has path i; 0 is PathBuf::default()
WithPaths(w) == [i \in 1..Len(w) |-> [path |-> i] @@ w[i]]

SeqsUpTo(S, n) == UNION {[1..k -> S] : k \in 0..n}

Walks == {WithPaths(<<DirEntry>> \o w) : w \in SeqsUpTo(Entries, MaxEntries)}

(***************************************************************************)
(* Report and the scan.                                                    *)
(***************************************************************************)
ReportDefault ==
    [extensions |-> EmptyMap, mimetypes |-> EmptyMap, folders |-> <<>>,
     size |-> <<>>, errors |-> <<>>]

ScanError(p, msg) == [path |-> p, message |-> msg]

\* process_entry(entry, report) when the sniffer's read returns n bytes:
\* the Result and the report as the call leaves it
process_entry(entry, rep, n) ==
    IF ~entry.meta_ok
    THEN [ok |-> FALSE,
          message |-> <<Lit("failed to read metadata for ")>> \o DebugPath(entry.path),
          report |-> rep]
    ELSE LET r1 == [rep EXCEPT !.size = Add(@, entry.size),
                               !.extensions = Incr(@, entry.ext)]
             mimetype == detect_mimetype(entry, n)
         IN IF ~mimetype.ok
            THEN [ok |-> FALSE,
                  message |-> <<Lit("failed to detect mimetype for ")>> \o DebugPath(entry.path),
                  report |-> r1]
            ELSE [ok |-> TRUE, message |-> <<>>,
                  report |-> [r1 EXCEPT !.mimetypes = Incr(@, mimetype.value)]]

\* a loop that gives up at the first item that is an error
RECURSIVE UntilError(_)
UntilError(w) == IF w = <<>> \/ Head(w).tag = "Err" THEN <<>>
                 ELSE <<Head(w)>> \o UntilError(Tail(w))
scan_iter_until_error(w) == UntilError(Tail(w))

\* WalkDir::new(target).into_iter().skip(1)
scan_iter(w) == Tail(w)

\* a loop body that drops the failure of process_entry
scan_body_drops_file_error(entry, rep, n) ==
    IF entry.tag = "Ok"
    THEN IF entry.is_dir
         THEN [rep EXCEPT !.folders = Append(@, entry.path)]
         ELSE process_entry(entry, rep, n).report
    ELSE [rep EXCEPT !.errors =
              Append(@, ScanError(IF entry.has_path THEN entry.path ELSE 0,
                                  <<Lit("failed to read entry: "), Lit("walkdir error")>>))]

\* the body of scan()'s for loop on one item
scan_body(entry, rep, n) ==
    IF entry.tag = "Ok"
    THEN IF entry.is_dir
         THEN [rep EXCEPT !.folders = Append(@, entry.path)]
         ELSE LET r == process_entry(entry, rep, n)
              IN IF r.ok THEN r.report
                 ELSE [r.report EXCEPT !.errors = Append(@, ScanError(entry.path, r.message))]
    ELSE [rep EXCEPT !.errors =
              Append(@, ScanError(IF entry.has_path THEN entry.path ELSE 0,
                                  <<Lit("failed to read entry: "), Lit("walkdir error")>>))]

(***************************************************************************)
(* Rendering.                                                              *)
(***************************************************************************)
\* friendly_bytes(bytes): the tokens of the formatted string
friendly_bytes(b) ==
    IF Gt1024(b)
    THEN LET kb == Div1024(b)
         IN IF Gt1024(kb)
            THEN LET mb == Div1024(Div1024(b))
                 IN IF Gt1024(mb)
                    THEN LET gb == Div1024(Div1024(Div1024(b)))
                         IN IF Gt1024(gb)
                            THEN LET tb == Div1024(Div1024(Div1024(Div1024(b))))
                                 IN <<Size(tb), Lit(" TiB")>>
                            ELSE <<Size(gb), Lit(" GiB")>>
                    ELSE <<Size(mb), Lit(" MiB")>>
            ELSE <<Size(kb), Lit(" KiB")>>
    ELSE <<Size(b), Lit(" bytes")>>

\* the comparator |a, b| b.1.cmp(a.1)
by_count_desc(a, b) ==
    IF b.count < a.count THEN "Less" ELSE IF b.count = a.count THEN "Equal" ELSE "Greater"

\* a stable sort (slice::sort_by, which Itertools::sorted_by calls): x, met after
\* the items of the sorted s, goes behind every item it is not less than
InsertStable(s, x) ==
    LET k == Cardinality({i \in 1..Len(s) : by_count_desc(x, s[i]) # "Less"})
    IN SubSeq(s, 1, k) \o <<x>> \o SubSeq(s, k + 1, Len(s))

\* s.sorted_by(|a, b| b.1.cmp(a.1))
RECURSIVE SortedBy(_)
SortedBy(s) ==
    IF s = <<>> THEN <<>>
    ELSE InsertStable(SortedBy(SubSeq(s, 1, Len(s) - 1)), s[Len(s)])

Reverse(s) == [i \in 1..Len(s) |-> s[Len(s) + 1 - i]]

\* the same sort over the map walked from its last key to its first
sorted_entries_reversed(data) == SortedBy(Reverse(Iter(data)))

\* data.iter().sorted_by(|a, b| b.1.cmp(a.1))
sorted_entries(data) == SortedBy(Iter(data))

RECURSIVE Flatten(_)
Flatten(ss) == IF ss = <<>> THEN <<>> ELSE Head(ss) \o Flatten(Tail(ss))

\* a join that ends every part with the separator
JoinTrailing(parts, sep) == Flatten([i \in 1..Len(parts) |-> parts[i] \o <<sep>>])

\* parts.join(sep)
RECURSIVE Join(_, _)
Join(parts, sep) ==
    IF parts = <<>> THEN <<>>
    ELSE IF Len(parts) = 1 THEN parts[1]
    ELSE parts[1] \o <<sep>> \o Join(Tail(parts), sep)

SEP == Lit(",\n")

\* message.replace('\\', "\\\\").replace('"', "\\\"")
Escape(msg) ==
    Flatten([i \in 1..Len(msg) |->
                IF IsLit(msg[i], "\\") THEN <<BACKSLASH, BACKSLASH>>
                ELSE IF IsLit(msg[i], "\"") THEN <<BACKSLASH, QUOTE>>
                ELSE <<msg[i]>>])

text_row(e) == <<KeyTok(e.key), Lit(": "), Num(e.count)>>
csv_row(e) == <<KeyTok(e.key), Lit(","), Num(e.count)>>
json_entry(e) == <<Lit("    \""), KeyTok(e.key), Lit("\": "), Num(e.count)>>
json_error(e) ==
    <<Lit("    {\n      \"path\": \""), PathTok(e.path), Lit("\",\n      \"message\": \"")>>
    \o Escape(e.message) \o <<Lit("\"\n    }")>>

display_text(rep, data) ==
    LET num_files == Sum(data)
        size == friendly_bytes(rep.size)
        error_info == IF rep.errors = <<>> THEN <<>>
                      ELSE <<Lit(", "), Num(Len(rep.errors)), Lit(" errors")>>
    IN <<(<<Num(num_files), Lit(" files, "), Num(Len(rep.folders)), Lit(" folders, ")>>
          \o size \o error_info)>>
       \o [i \in 1..Len(sorted_entries(data)) |-> text_row(sorted_entries(data)[i])]

display_csv(rep, data, use_mime) ==
    LET header == IF use_mime THEN "mimetype" ELSE "extension"
    IN <<(<<Lit(header), Lit(",count")>>)>> \o [i \in 1..Len(sorted_entries(data)) |-> csv_row(sorted_entries(data)[i])]

display_json(rep, data, use_mime) ==
    LET num_files == Sum(data)
        key_name == IF use_mime THEN "mimetypes" ELSE "extensions"
        entries == [i \in 1..Len(sorted_entries(data)) |-> json_entry(sorted_entries(data)[i])]
        error_entries == [i \in 1..Len(rep.errors) |-> json_error(rep.errors[i])]
    IN << <<Lit("{")>>,
          <<Lit("  \"files\": "), Num(num_files), Lit(",")>>,
          <<Lit("  \"folders\": "), Num(Len(rep.folders)), Lit(",")>>,
          <<Lit("  \"size\": "), Size(rep.size), Lit(",")>>,
          <<Lit("  \""), Lit(key_name), Lit("\": {")>>,
          Join(entries, SEP),
          <<Lit("  },")>>,
          <<Lit("  \"errors\": [")>>,
          Join(error_entries, SEP),
          <<Lit("  ]")>>,
          <<Lit("}")>> >>

Formats == {"Text", "Csv", "Json"}

\* Report::display(format, use_mime): the lines it prints
display(rep, format, use_mime) ==
    LET data == IF use_mime THEN rep.mimetypes ELSE rep.extensions
    IN CASE format = "Text" -> display_text(rep, data)
         [] format = "Csv" -> display_csv(rep, data, use_mime)
         [] format = "Json" -> display_json(rep, data, use_mime)

(***************************************************************************)
(* main(): Spec.                                                           *)
(***************************************************************************)
NoFile == [name |-> "", open_ok |-> FALSE, read_ok |-> FALSE, content |-> <<>>]
NoSniff == [ok |-> FALSE, value |-> "", bytes_read |-> 0]

Idle == bytes = <<>> /\ fb = <<>> /\ file = NoFile /\ sniff = NoSniff
IdleMain == walk = <<>> /\ iter = <<>> /\ stderr = <<>> /\ exit_code = -1

Clis == [target_exists : BOOLEAN, output : Formats, mime : BOOLEAN]

Init ==
    /\ pc = "start"
    /\ cli \in Clis
    /\ walk \in IF cli.target_exists THEN Walks ELSE {WithPaths(<<WalkErr(TRUE)>>)}
    /\ iter = <<>>
    /\ report = ReportDefault
    /\ stdout = <<>>
    /\ stderr = <<>>
    /\ exit_code = -1
    /\ Idle

\* main without the check of the target
target_missing_unchecked(c) == FALSE

\* !cli.target.exists()
target_missing(c) == ~c.target_exists

\* main, lines 195-201: the target does not exist
MainExit ==
    /\ pc = "start"
    /\ target_missing(cli)
    /\ stderr' = Append(stderr, <<Lit("target"), Lit(" does not exist")>>)
    /\ exit_code' = 1
    /\ pc' = "exit1"
    /\ UNCHANGED <<cli, walk, iter, report, stdout, bytes, fb, file, sniff>>

\* main calls scan: the Report is created and the walk begins
ScanStart ==
    /\ pc = "start"
    /\ ~target_missing(cli)
    /\ report' = ReportDefault
    /\ iter' = scan_iter(walk)
    /\ pc' = "scan"
    /\ UNCHANGED <<cli, walk, stdout, stderr, exit_code, bytes, fb, file, sniff>>

\* one turn of the for loop of scan
ScanStep ==
    /\ pc = "scan"
    /\ iter # <<>>
    /\ \E n \in ReadSizes(Len(Head(iter).content)) :
           report' = scan_body(Head(iter), report, n)
    /\ iter' = Tail(iter)
    /\ UNCHANGED <<pc, cli, walk, stdout, stderr, exit_code, bytes, fb, file, sniff>>

\* the walk is exhausted: scan returns the report
ScanReturn ==
    /\ pc = "scan"
    /\ iter = <<>>
    /\ pc' = "display"
    /\ UNCHANGED <<cli, walk, iter, report, stdout, stderr, exit_code, bytes, fb, file, sniff>>

\* report.display(&cli.output, cli.mime), and main returns
MainDisplay ==
    /\ pc = "display"
    /\ stdout' = stdout \o display(report, cli.output, cli.mime)
    /\ exit_code' = 0
    /\ pc' = "done"
    /\ UNCHANGED <<cli, walk, iter, report, stderr, bytes, fb, file, sniff>>

Next == MainExit \/ ScanStart \/ ScanStep \/ ScanReturn \/ MainDisplay

Spec == Init /\ [][Next]_vars

\* The scan under fairness: the program is sequential, so a step that can be taken
\* is taken.  scan() reads neither cli.output nor cli.mime: they are fixed here.
FairInit == Init /\ cli.output = "Text" /\ ~cli.mime

FairSpec == FairInit /\ [][Next]_vars /\ WF_vars(Next)

(***************************************************************************)
(* Properties of the scan (Spec, FairSpec).                                *)
(***************************************************************************)
\* scan() has returned
ScanDone == pc \in {"display", "done"}

\* the items strictly beneath the root
Beneath == Tail(walk)

IsTraversalError(e) == e.tag = "Err"
IsDirectoryNode(e) == e.tag = "Ok" /\ e.node = "dir"
\* an entry handed to process_entry
IsFileEntry(e) == e.tag = "Ok" /\ ~e.is_dir
FileFails(e) == IsFileEntry(e) /\ ~(e.meta_ok /\ e.open_ok /\ e.read_ok)
FileSucceeds(e) == IsFileEntry(e) /\ e.meta_ok /\ e.open_ok /\ e.read_ok
NotFullyProcessed(e) == IsTraversalError(e) \/ FileFails(e)
RecordedAsFolder(e) == e.tag = "Ok" /\ e.is_dir

PathsOf(s) == [i \in 1..Len(s) |-> s[i].path]
ReportedPath(e) == IF e.tag = "Err" /\ ~e.has_path THEN 0 ELSE e.path

\* C1: after scan, sum(extensions.values()) = sum(mimetypes.values()) = the number of
\* regular files processed without error.
C1_CountsAgree ==
    ScanDone =>
        /\ Sum(report.extensions) = Sum(report.mimetypes)
        /\ Sum(report.extensions) = Len(SelectSeq(Beneath, FileSucceeds))

\* C2: a file entry whose processing fails (metadata, or open/read in the sniffer)
\* leaves size, extensions and mimetypes as they were and appends exactly one
\* ScanError carrying its path.
C2_FailedEntryLeavesTotals ==
    [][(pc = "scan" /\ iter # <<>> /\ FileFails(Head(iter))) =>
          /\ report'.size = report.size
          /\ report'.extensions = report.extensions
          /\ report'.mimetypes = report.mimetypes
          /\ Len(report'.errors) = Len(report.errors) + 1
          /\ SubSeq(report'.errors, 1, Len(report.errors)) = report.errors
          /\ report'.errors[Len(report'.errors)].path = Head(iter).path]_vars

\* what a fully processed item adds to the report
Contributes(e, old, new) ==
    IF RecordedAsFolder(e)
    THEN new.folders = Append(old.folders, e.path)
    ELSE /\ new.size = Add(old.size, e.size)
         /\ new.extensions = Incr(old.extensions, e.ext)
         /\ Sum(new.mimetypes) = Sum(old.mimetypes) + 1
         /\ new.errors = old.errors

\* C3: the scan starts on every item beneath the root, each turn of the loop consumes
\* exactly the next item whether or not it fails, every item that does not fail makes
\* its contribution wherever it stands, and the scan eventually returns.
C3_BestEffortScan ==
    /\ [][/\ (pc = "start" /\ pc' = "scan") => iter' = Beneath
          /\ (pc = "scan" /\ iter # <<>>) => (pc' = "scan" /\ iter' = Tail(iter))
          /\ (pc = "scan" /\ iter # <<>> /\ ~NotFullyProcessed(Head(iter))) =>
                 Contributes(Head(iter), report, report')]_vars
    /\ (pc = "scan") ~> (pc = "display" /\ iter = <<>>)

\* a good file has just been counted although two failures came before it
C3_Witness ==
    /\ pc = "scan" /\ iter = <<>> /\ Len(walk) = 4
    /\ NotFullyProcessed(walk[2]) /\ NotFullyProcessed(walk[3]) /\ FileSucceeds(walk[4])
    /\ Sum(report.mimetypes) = 1 /\ Len(report.errors) = 2

\* C6: after scan, errors holds exactly one ScanError for each traversal failure and
\* for each file entry whose processing failed, in walk order, and none for the rest.
C6_ErrorsCountFailures ==
    ScanDone =>
        LET failed == SelectSeq(Beneath, NotFullyProcessed)
        IN /\ Len(report.errors) = Len(failed)
           /\ PathsOf(report.errors) = [i \in 1..Len(failed) |-> ReportedPath(failed[i])]

C6_Witness ==
    /\ ScanDone /\ Len(report.errors) = 2 /\ Len(report.folders) = 1
    /\ \E i \in 2..Len(walk) : IsTraversalError(walk[i])
    /\ \E i \in 2..Len(walk) : FileFails(walk[i])

\* C7: after scan, folders holds exactly the directory nodes strictly beneath the root,
\* each once: not the root, and no node that is not itself a directory.
C7_FoldersAreDirectories ==
    ScanDone => report.folders = PathsOf(SelectSeq(Beneath, IsDirectoryNode))

\* C8: a missing target is reported on stderr and exits 1 with no scan and no output;
\* otherwise nothing is printed before the scan has consumed the whole walk, the
\* finished report is rendered once, and the exit code is 0.
C8_PhaseOrder ==
    /\ (~cli.target_exists /\ pc # "start") =>
           /\ pc = "exit1" /\ exit_code = 1 /\ Len(stderr) = 1
           /\ stdout = <<>> /\ iter = <<>> /\ report = ReportDefault
    /\ cli.target_exists => (stderr = <<>> /\ pc # "exit1")
    /\ pc \in {"start", "scan", "display"} => (stdout = <<>> /\ exit_code = -1)
    /\ pc = "display" => iter = <<>>
    /\ pc = "done" =>
           /\ exit_code = 0 /\ iter = <<>>
           /\ stdout = display(report, cli.output, cli.mime)

C8_Witness ==
    /\ pc = "done" /\ cli.target_exists /\ Len(walk) > 2
    /\ stdout # <<>> /\ report.errors # <<>> /\ exit_code = 0

(***************************************************************************)
(* Report::display on drawn Reports: RenderSpec.                           *)
(***************************************************************************)
ExtKeys == {"", "png", "txt"}
MimeKeys == {OCTET, PDF, PNG}

CountMaps(keys) == UNION {[S -> 1..MaxCount] : S \in SUBSET keys}

\* an error message with characters that JSON escapes
SampleMessage == <<Lit("failed to read metadata for "), QUOTE, Lit("a"), BACKSLASH, Lit("b"), QUOTE>>
SampleErrors(k) == [i \in 1..k |-> ScanError(i, SampleMessage)]

\* Reports a scan can return: a file that failed in the sniffer is counted in
\* extensions and not in mimetypes, and has its error
Reports ==
    {r \in [extensions : CountMaps(ExtKeys), mimetypes : CountMaps(MimeKeys),
            folders : {<<>>, <<1>>}, size : {<<>>, U64(2000)},
            errors : {SampleErrors(k) : k \in 0..MaxErrors}] :
        /\ Sum(r.mimetypes) <= Sum(r.extensions)
        /\ Sum(r.extensions) <= Sum(r.mimetypes) + Len(r.errors)
        /\ (Sum(r.extensions) = 0 => r.size = <<>>)}

RenderInit ==
    /\ pc = "render"
    /\ cli \in {c \in Clis : c.target_exists}
    /\ report \in Reports
    /\ stdout = <<>>
    /\ IdleMain
    /\ Idle

RenderDisplay ==
    /\ pc = "render"
    /\ stdout' = display(report, cli.output, cli.mime)
    /\ pc' = "rendered"
    /\ UNCHANGED <<cli, walk, iter, report, stderr, exit_code, bytes, fb, file, sniff>>

RenderNext == RenderDisplay

RenderSpec == RenderInit /\ [][RenderNext]_vars

Data == IF cli.mime THEN report.mimetypes ELSE report.extensions

IsKeyTok(t) == DOMAIN t = {"key"}
IsNumTok(t) == DOMAIN t = {"int"}
IsSep(t) == IsLit(t, ",\n")

\* the key/count entries of a run of tokens, in order
EntriesOf(toks) ==
    LET ks == SelectSeq(toks, IsKeyTok)
        cs == SelectSeq(toks, IsNumTok)
    IN [i \in 1..Len(ks) |-> [key |-> ks[i].key, count |-> cs[i].int]]

\* the entries as printed: the rows after the first line (text, CSV), the body of
\* the nested object (JSON)
RenderedEntries ==
    IF cli.output = "Json" THEN EntriesOf(stdout[6])
    ELSE Flatten([i \in 1..(Len(stdout) - 1) |-> EntriesOf(stdout[i + 1])])

\* C4: in every mode and dimension the rendered entries are the map's entries, each
\* once, by descending count, equal counts by ascending key.
C4_RenderOrder ==
    pc = "rendered" =>
        LET es == RenderedEntries
        IN /\ Len(es) = Cardinality(DOMAIN Data)
           /\ \A k \in DOMAIN Data : \E i \in 1..Len(es) : es[i] = [key |-> k, count |-> Data[k]]
           /\ \A i, j \in 1..Len(es) :
                  i < j => \/ es[i].count > es[j].count
                           \/ es[i].count = es[j].count /\ Rank(es[i].key) < Rank(es[j].key)

\* three keys rendered, two of them with equal counts
C4_Witness ==
    /\ pc = "rendered" /\ Cardinality(DOMAIN Data) = 3
    /\ \E a, b, c \in DOMAIN Data : a # b /\ Data[a] = Data[b] /\ Data[c] # Data[a]

NumSeps(toks) == Len(SelectSeq(toks, IsSep))
NoDanglingSep(toks) ==
    toks # <<>> =>
        /\ ~IsSep(toks[1]) /\ ~IsSep(toks[Len(toks)])
        /\ \A i \in 1..(Len(toks) - 1) : ~(IsSep(toks[i]) /\ IsSep(toks[i + 1]))

\* C10: the JSON object's nested object holds max(n-1, 0) separators for n entries,
\* its errors array max(m-1, 0) for m errors, none first, last or doubled; with no
\* entries and no errors both bodies are empty; files, folders and size are numbers.
C10_JsonSeparators ==
    (pc = "rendered" /\ cli.output = "Json") =>
        LET n == Cardinality(DOMAIN Data)
            m == Len(report.errors)
        IN /\ Len(stdout) = 11
           /\ NumSeps(stdout[6]) = Max(n - 1, 0) /\ NoDanglingSep(stdout[6])
           /\ NumSeps(stdout[9]) = Max(m - 1, 0) /\ NoDanglingSep(stdout[9])
           /\ Len(SelectSeq(stdout[6], IsKeyTok)) = n
           /\ (n = 0 => stdout[6] = <<>>)
           /\ (m = 0 => stdout[9] = <<>>)
           /\ stdout[2] = <<Lit("  \"files\": "), Num(Sum(Data)), Lit(",")>>
           /\ stdout[3] = <<Lit("  \"folders\": "), Num(Len(report.folders)), Lit(",")>>
           /\ stdout[4] = <<Lit("  \"size\": "), Size(report.size), Lit(",")>>
           /\ \A i \in {1, 5, 7, 8, 10, 11} : NumSeps(stdout[i]) = 0

C10_Witness ==
    /\ pc = "rendered" /\ cli.output = "Json"
    /\ Cardinality(DOMAIN Data) >= 2 /\ Len(report.errors) = 2
    /\ NumSeps(stdout[6]) >= 1 /\ NumSeps(stdout[9]) = 1

(***************************************************************************)
(* friendly_bytes on drawn byte counts: BytesSpec.                         *)
(***************************************************************************)
Digits == {0, 1, 2, KiB - 1}
ByteCounts == {Trim(x) : x \in SeqsUpTo(Digits, MaxLimbs)}

BytesInit ==
    /\ pc = "bytes"
    /\ bytes \in ByteCounts
    /\ fb = <<>>
    /\ file = NoFile /\ sniff = NoSniff
    /\ cli = [target_exists |-> TRUE, output |-> "Text", mime |-> FALSE]
    /\ report = ReportDefault
    /\ stdout = <<>>
    /\ IdleMain

FriendlyBytes ==
    /\ pc = "bytes"
    /\ fb' = friendly_bytes(bytes)
    /\ pc' = "formatted"
    /\ UNCHANGED <<cli, walk, iter, report, stdout, stderr, exit_code, bytes, file, sniff>>

BytesNext == FriendlyBytes

BytesSpec == BytesInit /\ [][BytesNext]_vars

Units == <<" KiB", " MiB", " GiB", " TiB">>

\* floor(n / 1024^k) and the unit of tier k, k the largest tier in 1..4 with
\* n >= 1024^k; "<n> bytes" below 1024
TierFormat(b) ==
    IF ~Ge1024(b) THEN <<Size(b), Lit(" bytes")>>
    ELSE LET k == Min(Len(b) - 1, 4)
         IN <<Size(SubSeq(b, k + 1, Len(b))), Lit(Units[k])>>

\* C5: friendly_bytes(n) is "<n> bytes" below 1024 and otherwise floor(n / 1024^k)
\* with the unit of the largest tier k in 1..4 with n >= 1024^k.
C5_FriendlyBytesTiers == pc = "formatted" => fb = TierFormat(bytes)

(***************************************************************************)
(* detect_mimetype on drawn files: SniffSpec.                              *)
(***************************************************************************)
Zeros(n) == [i \in 1..n |-> 0]

Heads == {<<>>, PNG_MAGIC, PDF_MAGIC, HELLO, SubSeq(PNG_MAGIC, 1, 6)}
Contents ==
    Heads
    \cup {h \o Zeros(BUF_SIZE - Len(h) + k) : h \in Heads, k \in 0..MaxExtra}
    \cup {h \o Zeros(BUF_SIZE - Len(h)) \o PDF_MAGIC : h \in Heads}

SniffFiles ==
    {f \in [name : {"a.png", "b"}, open_ok : BOOLEAN, read_ok : BOOLEAN, content : Contents] :
        f.read_ok => f.open_ok}

SniffInit ==
    /\ pc = "sniff"
    /\ file \in SniffFiles
    /\ sniff = NoSniff
    /\ bytes = <<>> /\ fb = <<>>
    /\ cli = [target_exists |-> TRUE, output |-> "Text", mime |-> TRUE]
    /\ report = ReportDefault
    /\ stdout = <<>>
    /\ IdleMain

DetectMimetype ==
    /\ pc = "sniff"
    /\ \E n \in ReadSizes(Len(file.content)) : sniff' = detect_mimetype(file, n)
    /\ pc' = "sniffed"
    /\ UNCHANGED <<cli, walk, iter, report, stdout, stderr, exit_code, bytes, fb, file>>

SniffNext == DetectMimetype

SniffSpec == SniffInit /\ [][SniffNext]_vars

\* the label the signature table gives the bytes p
FirstMatch(p) ==
    IF \E i \in 1..Len(Signatures) : Matches(Signatures[i], p)
    THEN Signatures[CHOOSE i \in 1..Len(Signatures) :
                        /\ Matches(Signatures[i], p)
                        /\ \A j \in 1..(i - 1) : ~Matches(Signatures[j], p)].mime
    ELSE FALLBACK

Readable(f) == f.open_ok /\ f.read_ok
BufferFill(f) == Prefix(f.content, Min(Len(f.content), BUF_SIZE))

\* C9 as stated: the sniffer always returns a label: the fallback when nothing
\* matches, when nothing was read, or when the file cannot be opened or read, and
\* the first matching signature's label otherwise.
C9_FallbackOnEveryFailure ==
    pc = "sniffed" =>
        /\ sniff.ok
        /\ sniff.value = IF ~Readable(file) THEN FALLBACK
                         ELSE FirstMatch(Prefix(file.content, sniff.bytes_read))

\* C9 as amended: a file that cannot be opened or read gives an error and no label;
\* otherwise the label is the fallback when no signature matches the bytes read
\* (none read included) and the first matching signature's otherwise; at most
\* BUF_SIZE bytes are read, and a file with the same first BUF_SIZE bytes gets the
\* same result whatever its name and its later bytes.
C9_SnifferResult ==
    pc = "sniffed" =>
        /\ sniff.ok <=> Readable(file)
        /\ ~sniff.ok => sniff.value = (IF file.open_ok THEN "failed to read" ELSE "failed to open")
        /\ sniff.ok =>
               /\ sniff.bytes_read <= BUF_SIZE
               /\ sniff.value = FirstMatch(Prefix(file.content, sniff.bytes_read))
               /\ (sniff.bytes_read = 0 => sniff.value = FALLBACK)
        /\ \A g \in SniffFiles :
               (Readable(g) = Readable(file) /\ g.open_ok = file.open_ok
                /\ BufferFill(g) = BufferFill(file))
               => detect_mimetype(g, sniff.bytes_read) = sniff

\* a PNG longer than the buffer, sniffed from a full buffer
C9_Witness ==
    /\ pc = "sniffed" /\ sniff.ok /\ sniff.value = PNG
    /\ Len(file.content) > BUF_SIZE /\ sniff.bytes_read = BUF_SIZE

====
